---- MODULE Spec2Model ----
(***************************************************************************)
(* A model of DensityGridTracker (density_grid_tracker.cpp): the candidate *)
(* generator, the sizing and construction of the density grid, and the     *)
(* scoring of every candidate translation.                                 *)
(*                                                                         *)
(* Numbers.  The program computes in double and keeps min_pt_ and the      *)
(* points in float; the model computes over the integers:                  *)
(*   - lengths (coordinates, steps, ranges, the sensor distance) are in    *)
(*     ticks of 2^-6 m, so that every input of the model is a double and a *)
(*     float without rounding; the model covers steps of at most 1.5 m in  *)
(*     size, coordinates below 2^16 m and sensor distances below 100 m.    *)
(*     A length that is no whole number of ticks (a step of 0.1 m) is not  *)
(*     an input of the model: the program rounds its sums and quotients;   *)
(*   - min_pt_, max_pt and their differences are in half ticks (2^-7 m,    *)
(*     the z centering is a half difference) plus, for x and y, what the   *)
(*     rounding to float leaves of the 0.0001 m epsilon, in fine units of  *)
(*     2^-30 m; a number of half ticks a float does not hold (from 2^24    *)
(*     on) is rounded as the float is;                                     *)
(*   - quotients of lengths that are converted to int (static_cast, ceil,  *)
(*     round) are computed as the doubles are: exactly, since a single     *)
(*     division is rounded correctly, and with the rounding of the two     *)
(*     quotients and of their sum where round() sees a sum at a half;      *)
(*   - the error terms are in units of 2^-24 m, the variances sigma^2 in   *)
(*     units of 2^-27 m^2, to the nearest unit; the spillover radii, which *)
(*     are ceilings of multiples of sigma, are decided from the exact sum  *)
(*     of squares, not from the rounded variance;                          *)
(*   - int products and sums wrap at 32 bits;                              *)
(*   - volumes are in cubic ticks;                                         *)
(*   - Gaussian exponents, log densities, log probabilities and scores are *)
(*     in units of 1e-6, probabilities in units of 1e-8;                   *)
(*   - down_sample_factor is a positive integer.                           *)
(*                                                                         *)
(* The density grid is an array of kMaxXSize x kMaxYSize x kMaxZSize       *)
(* doubles, all log(kSmoothingFactor) after construction.  The model keeps *)
(* the cells that were written since (a function from cells to values);    *)
(* every other cell holds Background.  A cell that took a value read       *)
(* outside the spillover table holds any double that is at least the value *)
(* the model keeps for it; `indeterminate` is the set of these cells.      *)
(* The 12 members the constructor leaves uninitialised hold no number of   *)
(* the model until computeDensityGridSize writes them; `unwritten` is the  *)
(* set of these members.                                                   *)
(*                                                                         *)
(* The previous scan of a call has at least one point: the minimum and     *)
(* maximum of an empty scan are what pcl::getMinMax3D leaves in them, and  *)
(* that function is no part of this file.  The loops themselves are        *)
(* modelled with their 0-pass case.                                        *)
(***************************************************************************)
EXTENDS Integers, Sequences, FiniteSets, TLC

(***************************************************************************)
(* Program constants (anonymous namespace, lines 18-68).                   *)
(***************************************************************************)
kMaxDiscountPoints == 150
kSpilloverRadius == 2
kMeasurementDiscountFactor == 1
kMaxXSize == 1000
kMaxYSize == 1000
kMaxZSize == 500

\* Scales.
Tick == 2 * 32             \* ticks per metre
FINE == 2^23               \* fine units (2^-30 m) per half tick
ERR == 2^18                \* error units (2^-24 m) per tick
VAR == 2^15                \* variance units (2^-27 m^2) per square tick
LS == 10^6                 \* units per 1.0 of a log density or a Gaussian exponent
FS == 10^8                 \* units per 1.0 of a probability

\* kMinMeasurementVariance = 0.03 m, in error units.
kMinMeasurementVariance == (3 * 2^24) \div 100
\* kSmoothingFactor = 0.8, in probability units.
kSmoothingFactor == (8 * FS) \div 10
\* epsilon = 0.0001 m of computeDensityGridSize, in fine units.
epsilon == 2^30 \div 10000
\* tan(.18 / 2.0 * pi / 180.0) = 0.00157079762 as the fraction TanNum / TanDen.
TanNum == 2130
TanDen == 1355999

(***************************************************************************)
(* Arithmetic of <cmath> and of the double -> int conversions.             *)
(***************************************************************************)
Abs(a) == IF a < 0 THEN -a ELSE a

Max(a, b) == IF a < b THEN b ELSE a

Min(a, b) == IF b < a THEN b ELSE a

Sign(a) == IF a < 0 THEN -1 ELSE 1

\* static_cast<int>(a / b) for a and b whole numbers of ticks: truncation
\* toward zero.  The double quotient is rounded to nearest, which carries no
\* quotient of such a and b across a whole number.
TruncDiv(a, b) == Sign(a) * Sign(b) * (Abs(a) \div Abs(b))

\* floor(a / b).
FloorDiv(a, b) ==
  IF Sign(a) * Sign(b) > 0
    THEN Abs(a) \div Abs(b)
    ELSE -((Abs(a) + Abs(b) - 1) \div Abs(b))

\* ceil(a / b).
CeilDiv(a, b) ==
  IF Sign(a) * Sign(b) > 0
    THEN (Abs(a) + Abs(b) - 1) \div Abs(b)
    ELSE -(Abs(a) \div Abs(b))

\* round(a / b) of one quotient: to nearest, halves away from zero.
RoundDiv(a, b) == Sign(a) * Sign(b) * ((2 * Abs(a) + Abs(b)) \div (2 * Abs(b)))

\* The greatest and the least int.
INT_MAX == 2147483647

INT_MIN == -INT_MAX - 1

\* The 16-bit halves <<high, low>> of the two's complement of an int.
Halves(a) ==
  IF a >= 0 THEN <<a \div 65536, a % 65536>>
  ELSE <<65535 - ((-(a + 1)) \div 65536), 65535 - ((-(a + 1)) % 65536)>>

\* The int whose two's complement has the halves h.
IntOfHalves(h) ==
  IF h[1] >= 32768
    THEN -((65535 - h[1]) * 65536 + (65535 - h[2])) - 1
    ELSE h[1] * 65536 + h[2]

\* a * b mod 2^16 for 0 <= a, b < 2^16.
MulLow16(a, b) == (a * (b % 256) + ((a * (b \div 256)) % 256) * 256) % 65536

\* The halves of a * b for 0 <= a, b < 2^16.
Mul16(a, b) ==
  LET x == a * (b \div 256)
      y == a * (b % 256)
      low == (x % 256) * 256 + (y % 65536)
  IN  <<x \div 256 + y \div 65536 + low \div 65536, low % 65536>>

\* The product of two ints as the machine multiplies them: the low 32 bits
\* of the product (a product outside the int range is undefined in the
\* language; the multiply instruction wraps).
IntProduct(a, b) ==
  LET p == Halves(a)
      q == Halves(b)
      low == Mul16(p[2], q[2])
  IN  IntOfHalves(<<(low[1] + MulLow16(p[1], q[2]) + MulLow16(p[2], q[1])) % 65536,
                    low[2]>>)

\* The conversion to int of a double that is an infinity or a NaN is
\* undefined; the program gets what the conversion instruction of its build
\* yields: INT_MIN for each of them ("indefinite", cvttsd2si), or the
\* saturated value and 0 for a NaN ("saturating", fcvtzs).
Conversions == {"indefinite", "saturating"}

NonFiniteToInt(value, conv) ==
  IF conv = "indefinite" THEN INT_MIN
  ELSE IF value = "inf" THEN INT_MAX
  ELSE IF value = "-inf" THEN INT_MIN
  ELSE 0

\* n + 1 as the machine adds: INT_MAX + 1 wraps to INT_MIN.
IntSuccessor(n) == IF n = INT_MAX THEN INT_MIN ELSE n + 1

\* Natural numbers beyond the int range: the digits in base Base, the least
\* first, without a leading 0; <<>> is 0.
Base == 10000

\* big * k + carry for 0 < k < 2^15.
RECURSIVE BigTimes(_, _, _)
BigTimes(big, k, carry) ==
  IF big = <<>>
    THEN (IF carry = 0 THEN <<>>
          ELSE <<carry % Base>> \o BigTimes(<<>>, k, carry \div Base))
    ELSE <<(Head(big) * k + carry) % Base>>
           \o BigTimes(Tail(big), k, (Head(big) * k + carry) \div Base)

\* The digits of an int n >= 0.
BigOf(n) == BigTimes(<<>>, 1, n)

\* big * Base^places.
BigShift(big, places) ==
  IF big = <<>> THEN <<>> ELSE [i \in 1..places |-> 0] \o big

\* -1, 0 or 1 as a < b, a = b or a > b.
BigCompare(a, b) ==
  LET differing == {i \in 1..Len(a) : Len(a) = Len(b) /\ a[i] # b[i]}
      top == CHOOSE i \in differing : \A j \in differing : j <= i
  IN  IF Len(a) # Len(b) THEN (IF Len(a) < Len(b) THEN -1 ELSE 1)
      ELSE IF differing = {} THEN 0
      ELSE IF a[top] < b[top] THEN -1 ELSE 1

\* The greatest power of two <= h (1 for h <= 1).
RECURSIVE Pow2Floor(_)
Pow2Floor(h) ==
  IF h >= 256 THEN 256 * Pow2Floor(h \div 256)
  ELSE IF h >= 2 THEN 2 * Pow2Floor(h \div 2)
  ELSE 1

\* <<floor(a * b / c), a * b mod c>> for a, b >= 0 and 0 < c < 2^30, without
\* a product above the int range: b is taken digit by digit in base B, the
\* greatest power of two with c * B in range.
RECURSIVE MulDivRem(_, _, _, _)
MulDivRem(a, b, c, B) ==
  IF b = 0 THEN <<0, 0>>
  ELSE LET h == MulDivRem(a, b \div B, c, B)
           t == ((h[2] * B) % c) + (a % c) * (b % B)
       IN  <<h[1] * B + (h[2] * B) \div c + (a \div c) * (b % B) + t \div c, t % c>>

\* a * b / c to the nearest integer, a, b >= 0 and 0 < c < 2^30.  The
\* arguments are bound through a one-element set: they are computed once.
MulDiv(a, b, c) ==
  CHOOSE q \in
    {LET h == MulDivRem(v[1], v[2], v[3], Max(2, Pow2Floor(INT_MAX \div v[3])))
     IN  IF 2 * h[2] >= v[3] THEN h[1] + 1 ELSE h[1] : v \in {<<a, b, c>>}} : TRUE

\* a * b / c to the nearest integer for a and b of either sign.
SignedMulDiv(a, b, c) ==
  CHOOSE q \in
    {Sign(v[1]) * Sign(v[2]) * MulDiv(Abs(v[1]), Abs(v[2]), v[3]) :
       v \in {<<a, b, c>>}} : TRUE

\* floor(log2(a / n)) for a, n > 0.
RECURSIVE Log2Floor(_, _)
Log2Floor(a, n) ==
  IF a >= 256 * n THEN Log2Floor(a \div 256, n) + 8
  ELSE IF a >= 2 * n THEN Log2Floor(a \div 2, n) + 1
  ELSE IF 256 * a < n THEN Log2Floor(256 * a, n) - 8
  ELSE IF a < n THEN Log2Floor(2 * a, n) - 1
  ELSE 0

\* <<2^F * r mod n, bit>> for 0 <= r < n < 2^15 and F > 0: the remainder of
\* the division carried F binary places on, and the last quotient bit.
RECURSIVE Doubled(_, _, _)
Doubled(r, n, F) ==
  IF F > 16 THEN Doubled((r * 2^16) % n, n, F - 16)
  ELSE <<(r * 2^F) % n, ((r * 2^F) \div n) % 2>>

\* The rounding of the double quotient a / n (a, n > 0) to 53 significant
\* bits, nearest-even: <<e, c>> with e = floor(log2(a / n)) and
\* fl(a / n) - a / n = c / (n * 2^(52 - e)).
Residue(a, n) ==
  LET e == Log2Floor(a, n)
      d == Doubled(a % n, n, 52 - e)
      up == 2 * d[1] > n \/ (2 * d[1] = n /\ d[2] = 1)
  IN  <<e, IF up THEN n - d[1] ELSE -d[1]>>

\* For (a + b) / n = h > 0 an odd multiple of 1/2: whether the double sum
\* fl(fl(a / n) + fl(b / n)) is below h.  The sum of the two rounding errors,
\* c_a 2^e_a + c_b 2^e_b in units of 1 / (n 2^52), is compared with half the
\* spacing of the doubles below h.
SumBelowHalf(a, b, n) ==
  LET N == Abs(n)
      ra == Residue(Abs(a), N)
      rb == Residue(Abs(b), N)
      twoh == (2 * Abs(a + b)) \div N
      eh == Log2Floor(twoh, 2)
      th == IF twoh = 1 THEN 1 ELSE 2
      qa == ra[1] - eh + 2
      qb == rb[1] - eh + 2
      ta == Sign(a) * Sign(n) * ra[2]
      tb == Sign(b) * Sign(n) * rb[2]
      p == Min(qa, qb)
      V == ta * 2^(qa - p) + tb * 2^(qb - p)
  IN  IF a = 0 \/ b = 0 THEN FALSE
      ELSE IF p >= 0 THEN V < 0 /\ Abs(V) > (th * N) \div 2^Min(p, 15)
      ELSE IF qa < 0 THEN (tb * 2^qb + th * N) * 2^Min(-qa, 13) + ta < 0
      ELSE (ta * 2^qa + th * N) * 2^Min(-qb, 13) + tb < 0

\* round(a / n + (b + e) / n) as the doubles compute it: a, b and n # 0 are
\* lengths in the same unit, e >= 0 is a length far below that unit.  With
\* e > 0 an exact half is passed (n > 0) or not reached (n < 0); with e = 0 a
\* sum at an exact half goes where the roundings of the two quotients and of
\* their sum take it.
RECURSIVE RoundSum(_, _, _, _)
RoundSum(a, b, n, e) ==
  LET half == /\ (2 * Abs(a + b)) % Abs(n) = 0
              /\ ((2 * Abs(a + b)) \div Abs(n)) % 2 = 1
  IN  IF e > 0
        THEN (IF n > 0 THEN FloorDiv(2 * (a + b) + n, 2 * n)
                       ELSE CeilDiv(2 * (a + b) - n, 2 * n))
      ELSE IF ~half THEN RoundDiv(a + b, n)
      ELSE IF Sign(a + b) * Sign(n) < 0 THEN -RoundSum(-a, -b, n, 0)
      ELSE IF SumBelowHalf(a, b, n) THEN FloorDiv(a + b, n)
      ELSE FloorDiv(a + b, n) + 1

\* exp(-q) for whole q, in probability units (0 from q = 19 on).
ExpWhole(q) ==
  CASE q = 0 -> 100000000 [] q = 1 -> 36787944 [] q = 2 -> 13533528
    [] q = 3 -> 4978707 [] q = 4 -> 1831564 [] q = 5 -> 673795
    [] q = 6 -> 247875 [] q = 7 -> 91188 [] q = 8 -> 33546
    [] q = 9 -> 12341 [] q = 10 -> 4540 [] q = 11 -> 1670
    [] q = 12 -> 614 [] q = 13 -> 226 [] q = 14 -> 83 [] q = 15 -> 31
    [] q = 16 -> 11 [] q = 17 -> 4 [] q = 18 -> 2 [] OTHER -> 0

\* The Taylor series of exp(-x), 0 <= x < 1, from its term n on, in Horner
\* form: 1 - x / n * (1 - x / (n + 1) * ...); x and the result in units of
\* 1 / FS.
RECURSIVE ExpSeries(_, _)
ExpSeries(x, n) ==
  IF n > 13 THEN FS ELSE FS - MulDiv(MulDiv(x, ExpSeries(x, n + 1), FS), 1, n)

\* exp(-e / LS), e >= 0 in exponent units, in probability units.
ExpNeg(e) ==
  CHOOSE p \in
    {MulDiv(ExpWhole(v \div LS), ExpSeries((v % LS) * (FS \div LS), 1), FS) :
       v \in {e}} : TRUE

\* The series of atanh(z) / z from its term 1 / n on: 1 / n + z^2 / (n + 2)
\* + ..., z2 = z^2 in units of 1 / FS.
RECURSIVE LnSeries(_, _)
LnSeries(z2, n) ==
  IF n > 13 THEN 0 ELSE RoundDiv(FS, n) + MulDiv(z2, LnSeries(z2, n + 2), FS)

\* log(y / FS) in units of 1 / FS, y > 0: halving or doubling into
\* [0.75, 1.5], then 2 * atanh((y - 1) / (y + 1)).
RECURSIVE LnFine(_)
LnFine(y) ==
  IF 4 * y < 3 * FS THEN LnFine(2 * y) - 69314718
  ELSE IF 2 * y > 3 * FS THEN LnFine(y \div 2) + 69314718
  ELSE CHOOSE l \in
         {2 * SignedMulDiv(z, LnSeries(MulDiv(Abs(z), Abs(z), FS), 1), FS) :
            z \in {SignedMulDiv(y - FS, FS, y + FS)}} : TRUE

\* log(y / FS) in log units, y > 0 in probability units.
Ln(y) == CHOOSE l \in {SignedMulDiv(LnFine(v), 1, FS \div LS) : v \in {y}} : TRUE

\* log(kSmoothingFactor): the value of every cell after construction and
\* after a reset.
Background == Ln(kSmoothingFactor)


(***************************************************************************)
(* Inputs of one track call.  A point is <<x, y, z>> in ticks; a scan is a *)
(* sequence of points; a range is <<first, second>> in ticks.              *)
(***************************************************************************)
Point(x, y, z) == <<x * Tick, y * Tick, z * Tick>>

Frame(s, zs, xr, yr, zr, cur, prev, mm, hd, dsf) ==
  [xy_stepSize |-> s, z_stepSize |-> zs, xRange |-> xr, yRange |-> yr,
   zRange |-> zr, current_points |-> cur, prev_points |-> prev,
   motion_model |-> mm, horizontal_distance |-> hd, down_sample_factor |-> dsf]

\* MotionModel::computeScore(x, y, z): a probability in (0, 1] (in
\* probability units) that depends on the translation alone.  "uniform" gives every
\* translation 0.5; "isotropic" is 1 / (1 + |t|^2), |t| in metres.
MotionModel_computeScore(mm, x, y, z) ==
  LET d2 == x * x + y * y + z * z
  IN  IF mm = "isotropic"
        THEN Max(1, MulDiv(FS, Tick * Tick, Tick * Tick + d2))
        ELSE FS \div 2

(***************************************************************************)
(* createCandidateXYZTransforms (lines 108-149).                           *)
(***************************************************************************)
\* The z range after the collapse of lines 115-122.
CandidateZRange(zs, zRange_orig) ==
  IF zs > Abs(zRange_orig[1]) THEN <<0, 0>> ELSE zRange_orig

\* num_x_locations / num_y_locations (lines 129-130), step # 0: the double
\* quotient converted to int.
NumLocations(range, step) == TruncDiv(range[2] - range[1], step)

\* num_z_locations (lines 131-136).
NumZLocations(zs, zRange_orig) ==
  IF zs = 0 THEN 1 ELSE NumLocations(CandidateZRange(zs, zRange_orig), zs)

\* The argument of transforms->reserve (line 139): the product of three
\* ints, an int.
ReserveCount(f) ==
  IntProduct(IntProduct(NumLocations(f.xRange, f.xy_stepSize),
                        NumLocations(f.yRange, f.xy_stepSize)),
             NumZLocations(f.z_stepSize, f.zRange))

\* num_x_locations / num_y_locations for a step of 0: the difference over
\* 0.0 is an infinity, or a NaN for a difference of 0.
NumLocationsAtZeroStep(range, conv) ==
  NonFiniteToInt(IF range[2] > range[1] THEN "inf"
                 ELSE IF range[2] < range[1] THEN "-inf" ELSE "nan", conv)

\* The argument of transforms->reserve for an xy step of 0.
ReserveCountAtZeroStep(f, conv) ==
  IntProduct(IntProduct(NumLocationsAtZeroStep(f.xRange, conv),
                        NumLocationsAtZeroStep(f.yRange, conv)),
             NumZLocations(f.z_stepSize, f.zRange))

\* The number of elements from which reserve() may find no memory and throw
\* std::bad_alloc (2 GiB of transforms of 32 bytes): whether it does depends
\* on the machine.
kReserveAtRisk == 2^26

\* volume = pow(xy_step_size, 2) * z_step_size (line 141), in cubic ticks.
Volume(s, zs) == s * s * zs

\* The values a loop "for (v = first; v <= second; v += step)" visits, step > 0
\* (the sums of ticks are exact in double).
Lattice(first, second, step) ==
  IF first > second THEN <<>>
  ELSE [k \in 1..((second - first) \div step + 1) |-> first + (k - 1) * step]

XYZTransform(x, y, z, volume) == [x |-> x, y |-> y, z |-> z, volume |-> volume]

\* The nested loops of lines 144-149: x outer, y inner, z = 0.
CandidateRows(xs, ys, volume) ==
  [i \in 1..(Len(xs) * Len(ys)) |->
     XYZTransform(xs[(i - 1) \div Len(ys) + 1], ys[((i - 1) % Len(ys)) + 1], 0, volume)]

CandidateList(f) ==
  CandidateRows(Lattice(f.xRange[1], f.xRange[2], f.xy_stepSize),
                Lattice(f.yRange[1], f.yRange[2], f.xy_stepSize),
                Volume(f.xy_stepSize, f.z_stepSize))

\* The outcomes of createCandidateXYZTransforms, [status, transforms]:
\*   "ok": the list of candidates;
\*   "length_error": reserve() is given a negative int, which converts to a
\*       size_t above max_size(), and throws std::length_error;
\*   "no_return": with a step <= 0, a non-empty x range and an empty y range
\*       the x loop never passes its upper bound and pushes nothing;
\*   "bad_alloc": reserve() of kReserveAtRisk elements or more finds no
\*       memory; or, with a step <= 0 and non-empty x and y ranges, the y
\*       loop never passes its upper bound and push_back goes on until the
\*       allocation of the vector fails.
\* With xy_step_size = 0 the two counts convert an infinity or a NaN to int
\* (undefined): the outcome is that of either conversion.
Outcome(status, transforms) == [status |-> status, transforms |-> transforms]

createCandidateXYZTransforms(f) ==
  LET s == f.xy_stepSize
      loops == IF s > 0 THEN Outcome("ok", CandidateList(f))
               ELSE IF f.xRange[1] > f.xRange[2] THEN Outcome("ok", <<>>)
               ELSE IF f.yRange[1] > f.yRange[2] THEN Outcome("no_return", <<>>)
               ELSE Outcome("bad_alloc", <<>>)
      Reserved(count) ==
        IF count < 0 THEN {Outcome("length_error", <<>>)}
        ELSE IF count >= kReserveAtRisk THEN {Outcome("bad_alloc", <<>>), loops}
        ELSE {loops}
  IN  IF s = 0
        THEN UNION {Reserved(ReserveCountAtZeroStep(f, conv)) : conv \in Conversions}
        ELSE Reserved(ReserveCount(f))

(***************************************************************************)
(* The tracker (one DensityGridTracker), the caller's sink, and the        *)
(* position of the call in progress.                                       *)
(***************************************************************************)
VARIABLES
  pc,                       \* where the call in progress stands
  frame,                    \* the arguments of the call in progress (or of the last)
  calls,                    \* the number of track calls started
  xyz_transforms,           \* track's local list of candidates
  next_transform,           \* the loop index i of scoreXYZTransforms, from 1
  next_point,               \* the loop index i of computeDensityGrid, from 1
  spillovers,               \* computeDensityGrid's local table, <<i, j, k>> -> value
  scored_transforms,        \* the caller's ScoredTransforms, in insertion order
  density_grid_,            \* written cells -> value; other cells hold Background
  indeterminate,            \* the cells a value read outside the table went into
  xy_grid_step_, z_grid_step_,
  discount_factor_,         \* a fraction [num, den]
  min_pt_,                  \* [half, eps]: half ticks less fine units, per axis
  xSize_, ySize_, zSize_,
  spillover_sigma_xy_,      \* held as its square, in variance units
  spillover_sigma_z_,       \* held as its square, in variance units
  num_spillover_steps_xy_, num_spillover_steps_z_,
  min_density_,
  unwritten,                \* the members no call has written yet
  returned                  \* history: <<frame, result, indeterminate entries>> of
                            \* every returned call

fields == <<xy_grid_step_, z_grid_step_, discount_factor_, min_pt_, xSize_, ySize_,
            zSize_, spillover_sigma_xy_, spillover_sigma_z_,
            num_spillover_steps_xy_, num_spillover_steps_z_, min_density_, unwritten>>

vars == <<pc, frame, calls, xyz_transforms, next_transform, next_point, spillovers,
          scored_transforms, density_grid_, indeterminate, fields, returned>>

(***************************************************************************)
(* computeDensityGridSize (lines 231-332).                                 *)
(***************************************************************************)
\* The discount with every point taken as independent.
DiscountFactorNone(n) == [num |-> kMeasurementDiscountFactor, den |-> 1]

\* The discount of lines 243-248, as the fraction num / den.
DiscountFactor(n) ==
  IF n < kMaxDiscountPoints
    THEN [num |-> kMeasurementDiscountFactor, den |-> 1]
    ELSE [num |-> kMeasurementDiscountFactor * kMaxDiscountPoints, den |-> n]

\* pcl::getMinMax3D: the componentwise minimum and maximum of a scan.
Coordinates(points, axis) == {points[i][axis] : i \in 1..Len(points)}

SeqMin(points, axis) ==
  CHOOSE m \in Coordinates(points, axis) : \A v \in Coordinates(points, axis) : m <= v

SeqMax(points, axis) ==
  CHOOSE m \in Coordinates(points, axis) : \A v \in Coordinates(points, axis) : v <= m

\* z_centering = fabs(z_grid_step_ - z_range) / 2 (lines 264-265), in half
\* ticks.
ZCentering(points, zs) == Abs(zs - (SeqMax(points, 3) - SeqMin(points, 3)))

\* The spacing, in fine units, of the floats next to a value of `half` half
\* ticks less a positive amount below a half tick.
FloatSpacing(half) == Pow2Floor(IF half < 0 THEN -half ELSE half - 1)

\* e fine units rounded to a multiple of the spacing g, ties to even.
RoundToSpacing(e, g) ==
  LET q == e \div g
      r == e % g
  IN  IF 2 * r > g \/ (2 * r = g /\ q % 2 = 1) THEN (q + 1) * g ELSE q * g

\* What the rounding to float of "half - epsilon" (lines 259-260) leaves of
\* epsilon, in fine units: the float stored is half half ticks less this.
EpsilonLeft(half) == RoundToSpacing(epsilon, FloatSpacing(half))

\* A number of half ticks rounded to float (24 bits, ties to even): from
\* 2^24 half ticks on the floats are 2 half ticks apart.
FloatHalf(half) ==
  LET a == Abs(half)
  IN  Sign(half) * RoundToSpacing(a, Max(1, Pow2Floor(a) \div 2^23))

\* min_pt_ after the padding of lines 259-266: the coordinates in half ticks,
\* less eps fine units.  Each is stored as a float (-= on a float member).
PaddedMin(points, s, zs) ==
  LET x == 2 * SeqMin(points, 1) - 4 * s
      y == 2 * SeqMin(points, 2) - 4 * s
      z == FloatHalf(2 * SeqMin(points, 3) - (4 * zs + ZCentering(points, zs)))
  IN  [half |-> <<x, y, z>>, eps |-> <<EpsilonLeft(x), EpsilonLeft(y), 0>>]

\* max_pt after the padding of lines 271-273, in half ticks.
PaddedMax(points, s, zs) ==
  <<2 * SeqMax(points, 1) + 4 * s, 2 * SeqMax(points, 2) + 4 * s,
    2 * SeqMax(points, 3) + 4 * zs>>

\* max_pt - min_pt_ on one axis (lines 277, 279, 281), a difference of floats
\* rounded to float: half ticks plus eps fine units.
Extent(lo, hi, axis) ==
  LET d == FloatHalf(hi[axis] - lo.half[axis])
      e == lo.eps[axis]
  IN  [half |-> d,
       eps |-> IF e = 0 \/ d = 0 THEN e
               ELSE RoundToSpacing(e, Pow2Floor(IF d > 0 THEN d ELSE -d - 1))]

\* ceil(extent / step), step # 0 in ticks.
CeilQuotient(extent, step) ==
  IF extent.eps > 0 /\ step > 0
    THEN FloorDiv(extent.half, 2 * step) + 1
    ELSE CeilDiv(extent.half, 2 * step)

\* GridSize without the clamp to the axis maximum.
GridSizeUnclamped(extent, step, kMax) == Max(1, CeilQuotient(extent, step))

\* min(kMax, max(1, static_cast<int>(ceil(extent / step)))) (lines 276-281).
GridSize(extent, step, kMax) == Min(kMax, Max(1, CeilQuotient(extent, step)))

\* extent / 0.0: an infinity, or a NaN for an extent of 0.
OverZero(extent) ==
  IF extent.half > 0 \/ (extent.half = 0 /\ extent.eps > 0) THEN "inf"
  ELSE IF extent.half = 0 THEN "nan"
  ELSE "-inf"

\* The size of lines 276-281 for a step of 0.
GridSizeAtZeroStep(extent, kMax, conv) ==
  Min(kMax, Max(1, NonFiniteToInt(OverZero(extent), conv)))

\* The radii of lines 324-329 for a step of 0: sigma > 0 over 0.0 is an
\* infinity, and so is max(1.0, infinity).
SpilloverStepsAtZeroStep(conv) == NonFiniteToInt("inf", conv)

\* resolution_error_xy = velodyne_horizontal_res * kSigmaFactor (lines
\* 295-305): hd * tan(0.09 deg) / dsf, in error units.
ResolutionErrorXY(hd, dsf) == MulDiv(ERR * TanNum, Abs(hd), TanDen * dsf)

\* resolution_error_z = 2.2 * velodyne_horizontal_res * kSigmaFactor (lines
\* 301, 315), in error units.
ResolutionErrorZ(hd, dsf) == MulDiv(ERR * TanNum, 11 * Abs(hd), 5 * TanDen * dsf)

\* pow(e, 2) of an error term, in variance units.
Square(e) == MulDiv(e, e, 2^21)

\* spillover_sigma_xy_ squared (lines 304-311; kSigmaGridFactor = 1).
SigmaXY2(s, hd, dsf) ==
  s * s * VAR + Square(ResolutionErrorXY(hd, dsf)) + Square(kMinMeasurementVariance)

\* spillover_sigma_z_ squared (lines 314-320; the sampling error is 0).
SigmaZ2(hd, dsf) ==
  Square(ResolutionErrorZ(hd, dsf)) + Square(kMinMeasurementVariance)

\* tan(.18 / 2.0 * pi / 180.0)^2 = 2.467405158990141029041389618938e-6, the
\* square of the double the program multiplies by, in units of
\* Base^-TanPlaces = 1e-36.
TanSquared == <<8938, 8961, 413, 1029, 9014, 1589, 7405, 246>>

TanPlaces == 9

\* The comparison of (n step)^2 with (kSpilloverRadius sigma)^2, sigma^2 =
\* sampling^2 + (ratio hd tan / dsf)^2 + 0.03^2 m^2 the sum under the root of
\* lines 309-311 (ratio = 1) and 319-320 (ratio = 2.2, sampling = 0): -1, 0
\* or 1 as (n step)^2 is below, at or above.  Lengths in ticks; both sides are
\* multiplied by 625 dsf^2, which makes them whole but for tan^2:
\*   dsf^2 (625 ((n step)^2 - 4 sampling^2) - 9216)
\*     against  weight hd^2 tan^2,  weight = 625 * 4 * ratio^2
\* (9216 = 625 * 4 * (0.03 * 64)^2).
\* The double sigma is within a few parts in 10^16 of the root: the two sides
\* of a comparison that are this close are beyond the model.
SigmaCompare(n, q) ==
  LET G == 625 * ((n * q.step) * (n * q.step)
                    - kSpilloverRadius * kSpilloverRadius * q.sampling * q.sampling)
             - 9216
      lhs == BigShift(BigTimes(BigTimes(BigOf(G), q.dsf, 0), q.dsf, 0), TanPlaces)
      rhs == IF q.hd = 0 THEN <<>>
             ELSE BigTimes(BigTimes(BigTimes(TanSquared, q.weight, 0),
                                    Abs(q.hd), 0), Abs(q.hd), 0)
  IN  IF G < 0 THEN -1 ELSE BigCompare(lhs, rhs)

\* The least n in lo+1..hi with SigmaCompare(n, q) >= least, by bisection
\* (the comparison is below `least` at lo and not at hi).
RECURSIVE StepsBetween(_, _, _, _)
StepsBetween(q, least, lo, hi) ==
  IF hi - lo <= 1 THEN hi
  ELSE IF SigmaCompare((lo + hi) \div 2, q) >= least
         THEN StepsBetween(q, least, lo, (lo + hi) \div 2)
         ELSE StepsBetween(q, least, (lo + hi) \div 2, hi)

\* ceil(kSpilloverRadius * sigma / step - 1) (lines 324-325, 329), step # 0.
\* For step > 0 it is the least m with (m + 1) step >= 2 sigma; for step < 0,
\* -n with n the least n with n |step| > 2 sigma.  2 sigma is below 1024
\* ticks.
SpilloverSteps(sampling, weight, hd, dsf, step) ==
  LET q == [step |-> Abs(step), sampling |-> sampling, weight |-> weight,
            hd |-> hd, dsf |-> dsf]
      hi == 1024 \div Abs(step) + 1
  IN  IF step > 0 THEN StepsBetween(q, 0, 0, hi) - 1
      ELSE -StepsBetween(q, 1, 0, hi)

\* num_spillover_steps_xy_ (lines 324-325), xy step # 0.
SpilloverStepsXY(s, hd, dsf) == SpilloverSteps(s, 2500, hd, dsf, s)

\* num_spillover_steps_z_ (lines 328-329), z step # 0.
SpilloverStepsZ(zs, hd, dsf) == Max(1, SpilloverSteps(0, 12100, hd, dsf, zs))


(***************************************************************************)
(* computeDensityGrid (lines 334-458).                                     *)
(***************************************************************************)
\* -xy_exp_factor and -z_exp_factor (lines 344-347): step^2 / (2 sigma^2), as
\* the fraction num / den.
ExpFactor(step, sigma2) == [num |-> step * step * (VAR \div 2), den |-> sigma2]

\* -log_xy_density and -log_z_density (lines 361, 365): dist_sq times the
\* factor, in exponent units.
LogDensity(dist_sq, factor) ==
  LET h == MulDivRem(factor.num, dist_sq, factor.den,
                     Max(2, Pow2Floor(INT_MAX \div factor.den)))
  IN  h[1] * LS + MulDiv(h[2], LS, factor.den)

\* spillovers[i][j][k] (lines 356-371).
Spillover(i, j, k) ==
  LET log_xy_density == LogDensity(i * i + j * j,
                                   ExpFactor(xy_grid_step_, spillover_sigma_xy_))
      log_z_density == LogDensity(k * k, ExpFactor(z_grid_step_, spillover_sigma_z_))
  IN  Ln(ExpNeg(log_xy_density + log_z_density) + min_density_)

\* The table of lines 352-371 for the fields as they stand.
SpilloverTable ==
  [o \in (0..num_spillover_steps_xy_) \X (0..num_spillover_steps_xy_)
          \X (0..num_spillover_steps_z_) |-> Spillover(o[1], o[2], o[3])]

\* x_index, y_index, z_index of a point (lines 385-387, with the offsets of
\* lines 337-339): round(pt / step + -min_pt_ / step).
PointIndex(pt) ==
  <<RoundSum(2 * pt[1], -min_pt_.half[1], 2 * xy_grid_step_, min_pt_.eps[1]),
    RoundSum(2 * pt[2], -min_pt_.half[2], 2 * xy_grid_step_, min_pt_.eps[2]),
    RoundSum(2 * pt[3], -min_pt_.half[3], 2 * z_grid_step_, min_pt_.eps[3])>>

\* max_x_index, max_y_index (lines 392-395) and max_z_index (403-404).
MaxIndex(index, size, steps) == Max(1, Min(size - 2, index + steps))

\* min_x_index with the border cell 0 let in.
MinIndexFromBorder(index, size, steps) == Min(size - 2, Max(0, index - steps))

\* min_x_index, min_y_index (lines 397-400).
MinIndex(index, size, steps) == Min(size - 2, Max(1, index - steps))

\* min_z_index (lines 405-406).
MinZIndex(index, size, steps) == Max(1, Min(size - 2, index - steps))

\* z_spill, z_spill_up, z_spill_down of the unit-radius branch (430-432).
ZSpill(z_index) == Min(Max(1, z_index), zSize_ - 2)

ZSpillUp(z_index) == Min(ZSpill(z_index) + 1, zSize_ - 2)

ZSpillDown(z_index) == Max(1, ZSpill(z_index) - 1)

\* The x and y values the loops of lines 409-412 and 435-438 visit.
XWindow(ix) ==
  MinIndex(ix[1], xSize_, num_spillover_steps_xy_)
    .. MaxIndex(ix[1], xSize_, num_spillover_steps_xy_)

YWindow(ix) ==
  MinIndex(ix[2], ySize_, num_spillover_steps_xy_)
    .. MaxIndex(ix[2], ySize_, num_spillover_steps_xy_)

\* The z values the loop of line 415 visits.
GeneralZWindow(ix) ==
  MinZIndex(ix[3], zSize_, num_spillover_steps_z_)
    .. MaxIndex(ix[3], zSize_, num_spillover_steps_z_)

\* The z values written for one (x_spill, y_spill): the loop of line 415, or
\* the three cells of lines 443-452.
ZWindow(ix) ==
  IF num_spillover_steps_z_ > 1
    THEN GeneralZWindow(ix)
    ELSE {ZSpill(ix[3]), ZSpillUp(ix[3]), ZSpillDown(ix[3])}

\* The cells one point writes.
PointWindow(pt) ==
  LET ix == PointIndex(pt) IN XWindow(ix) \X YWindow(ix) \X ZWindow(ix)

\* The table offset <<x_diff, y_diff, z_diff>> of lines 410-418 for cell c.
GeneralOffset(ix, c) == <<Abs(ix[1] - c[1]), Abs(ix[2] - c[2]), Abs(ix[3] - c[3])>>

\* The table offsets <<x_diff, y_diff, z_diff>> read for cell c of the window
\* of the point with indices ix: the one of line 418, or those of lines 441
\* and 446 (z offset 0 for z_spill, 1 for the cell above and the cell below).
WindowOffsets(ix, c) ==
  LET xd == Abs(ix[1] - c[1])
      yd == Abs(ix[2] - c[2])
  IN  IF num_spillover_steps_z_ > 1
        THEN {GeneralOffset(ix, c)}
        ELSE (IF c[3] = ZSpill(ix[3]) THEN {<<xd, yd, 0>>} ELSE {})
               \cup (IF c[3] \in {ZSpillUp(ix[3]), ZSpillDown(ix[3])}
                       THEN {<<xd, yd, 1>>} ELSE {})

\* The grid value of a cell.
GridAt(grid, c) == IF c \in DOMAIN grid THEN grid[c] ELSE Background

RECURSIVE SetMax(_, _)
SetMax(values, least) ==
  IF values = {} THEN least
  ELSE LET v == CHOOSE v \in values : TRUE IN Max(v, SetMax(values \ {v}, least))

\* The body of the loop of line 381 for one point: every cell of the window
\* becomes the max of its value and the spillover read for it.  A read at an
\* offset outside the table is undefined and yields any double, one read
\* another than the next: the cell then holds some value that is at least
\* what it would hold without this read.  The grid keeps that least value,
\* and IndeterminateCells names the cell.
InsertPoint(grid, pt, table) ==
  LET ix == PointIndex(pt)
      window == PointWindow(pt)
      Spilled(c) ==
        SetMax({table[o] : o \in WindowOffsets(ix, c) \cap DOMAIN table},
               GridAt(grid, c))
  IN  [c \in DOMAIN grid \cup window |->
         IF c \in window THEN Spilled(c) ELSE grid[c]]

\* The cells of the window of a point that a read outside the table is
\* written into.
IndeterminateCells(pt, table) ==
  {c \in PointWindow(pt) :
     \E o \in WindowOffsets(PointIndex(pt), c) : o \notin DOMAIN table}

\* The body of the loop of line 381 for one point when the triple loop of
\* lines 403-424 is the one that runs (a read outside the table as in
\* InsertPoint).
GeneralInsertPoint(grid, pt, table) ==
  LET ix == PointIndex(pt)
      window == XWindow(ix) \X YWindow(ix) \X GeneralZWindow(ix)
      Spilled(c) ==
        SetMax({table[o] : o \in {GeneralOffset(ix, c)} \cap DOMAIN table},
               GridAt(grid, c))
  IN  [c \in DOMAIN grid \cup window |->
         IF c \in window THEN Spilled(c) ELSE grid[c]]

\* The grid after the triple loop has run for the first n points, from grid.
RECURSIVE GeneralGrid(_, _, _, _)
GeneralGrid(grid, points, n, table) ==
  IF n = 0 THEN grid
  ELSE GeneralInsertPoint(GeneralGrid(grid, points, n - 1, table), points[n], table)

\* Whether the triple loop reads the table outside its bounds for a point.
GeneralReadsOutsideTable(pt) ==
  LET ix == PointIndex(pt)
  IN  \E c \in XWindow(ix) \X YWindow(ix) \X GeneralZWindow(ix) :
        LET o == GeneralOffset(ix, c)
        IN  \/ o[1] > num_spillover_steps_xy_
            \/ o[2] > num_spillover_steps_xy_
            \/ o[3] > num_spillover_steps_z_

\* Whether the insertion of a point reads the table outside its bounds.
ReadsOutsideTable(pt) ==
  \E c \in PointWindow(pt) :
    \E o \in WindowOffsets(PointIndex(pt), c) :
      \/ o[1] > num_spillover_steps_xy_
      \/ o[2] > num_spillover_steps_xy_
      \/ o[3] > num_spillover_steps_z_

(***************************************************************************)
(* getLogProbability (lines 460-515).                                      *)
(***************************************************************************)
\* The shifted index converted to int without round().
ShiftedIndexTruncated(coord, shift, axis, step, size) ==
  Min(Max(0, TruncDiv(2 * coord + 2 * shift - min_pt_.half[axis], 2 * step)), size - 1)

\* x_index_shifted and the like (lines 488-496, with the offsets of lines
\* 473-475): round(pt / step + (shift - minPt) / step), then the clamp into
\* [0, size - 1].
ShiftedIndex(coord, shift, axis, step, size) ==
  Min(Max(0, RoundSum(2 * coord, 2 * shift - min_pt_.half[axis], 2 * step,
                      min_pt_.eps[axis])),
      size - 1)

\* The cell looked up for a current point under the translation (x, y, z).
ShiftedCell(pt, x, y, z) ==
  <<ShiftedIndex(pt[1], x, 1, xy_grid_step_, xSize_),
    ShiftedIndex(pt[2], y, 2, xy_grid_step_, ySize_),
    ShiftedIndex(pt[3], z, 3, z_grid_step_, zSize_)>>

\* total_log_density (lines 470-501) over the first n current points.
RECURSIVE TotalLogDensity(_, _, _, _, _)
TotalLogDensity(points, n, x, y, z) ==
  IF n = 0 THEN 0
  ELSE TotalLogDensity(points, n - 1, x, y, z)
         + GridAt(density_grid_, ShiftedCell(points[n], x, y, z))

\* discount_factor_ * log_measurement_prob (line 512).
Discounted(total) == SignedMulDiv(total, discount_factor_.num, discount_factor_.den)

\* log(motion_model_prob) + discount_factor_ * log_measurement_prob.
getLogProbability(current_points, motion_model, x, y, z) ==
  Ln(MotionModel_computeScore(motion_model, x, y, z))
    + Discounted(TotalLogDensity(current_points, Len(current_points), x, y, z))

\* Whether getLogProbability looks up a cell of indeterminate value: the
\* log probability is then indeterminate (at least the one computed).
LooksUpIndeterminate(current_points, x, y, z) ==
  \E n \in 1..Len(current_points) :
    ShiftedCell(current_points[n], x, y, z) \in indeterminate

ScoredTransformXYZ(x, y, z, log_prob, volume) ==
  [x |-> x, y |-> y, z |-> z, log_prob |-> log_prob, volume |-> volume]

(***************************************************************************)
(* The state after construction (lines 72-76): every cell holds            *)
(* log(kSmoothingFactor).  The constructor initialises no other member:    *)
(* each holds what the storage of the tracker held before, which the model *)
(* does not choose: the member is in `unwritten`.  The sink is             *)
(* the caller's object (line 94) and holds what the caller left in it.     *)
(***************************************************************************)
NoFrame == Frame(0, 0, <<0, 0>>, <<0, 0>>, <<0, 0>>, <<>>, <<>>, "none", 0, 1)

\* The 12 members the constructor does not initialise.
Members ==
  {"xy_grid_step_", "z_grid_step_", "discount_factor_", "min_pt_",
   "xSize_", "ySize_", "zSize_", "spillover_sigma_xy_", "spillover_sigma_z_",
   "num_spillover_steps_xy_", "num_spillover_steps_z_", "min_density_"}

\* What the model keeps for a member that was never written.  Such a member
\* holds whatever the storage of the tracker held, any bit pattern of its
\* type (zeros, a NaN, the value of an earlier object): it is no number of
\* the model, and no action reads it, since computeDensityGridSize writes
\* every member before the first read.
Indeterminate == "indeterminate"

\* What the caller's sink holds at the first call: nothing, or the entry of
\* an earlier use of the sink.
CallerSinks ==
  {<<>>, <<ScoredTransformXYZ(7 * Tick, 7 * Tick, 0, -LS, Tick * Tick * Tick)>>}

Init ==
  /\ pc = "idle"
  /\ frame = NoFrame
  /\ calls = 0
  /\ xyz_transforms = <<>>
  /\ next_transform = 1
  /\ next_point = 1
  /\ spillovers = <<>>
  /\ scored_transforms \in CallerSinks
  /\ density_grid_ = [c \in {} |-> Background]
  /\ indeterminate = {}
  /\ xy_grid_step_ = Indeterminate
  /\ z_grid_step_ = Indeterminate
  /\ discount_factor_ = Indeterminate
  /\ min_pt_ = Indeterminate
  /\ xSize_ = Indeterminate
  /\ ySize_ = Indeterminate
  /\ zSize_ = Indeterminate
  /\ spillover_sigma_xy_ = Indeterminate
  /\ spillover_sigma_z_ = Indeterminate
  /\ num_spillover_steps_xy_ = Indeterminate
  /\ num_spillover_steps_z_ = Indeterminate
  /\ min_density_ = Indeterminate
  /\ unwritten = Members
  /\ returned = {}

(***************************************************************************)
(* track (lines 82-106): the call starts and creates the candidates.  The  *)
(* steps of scoreXYZTransforms follow, one action each.                    *)
(***************************************************************************)
track(f) ==
  /\ pc \in {"idle", "length_error", "bad_alloc"}
  /\ \E out \in createCandidateXYZTransforms(f) :
       /\ xyz_transforms' = out.transforms
       /\ pc' = IF out.status = "ok" THEN "created" ELSE out.status
  /\ frame' = f
  /\ calls' = calls + 1
  /\ next_transform' = 1
  /\ UNCHANGED <<spillovers, next_point, scored_transforms, density_grid_,
                 indeterminate, fields, returned>>

\* The cells the reset of lines 285-291 fills.
InUsedExtent(c, xs, ys, zs) ==
  /\ 0 <= c[1] /\ c[1] < xs
  /\ 0 <= c[2] /\ c[2] < ys
  /\ 0 <= c[3] /\ c[3] < zs

\* computeDensityGridSize (lines 231-332): every one of the 12 members is
\* written and the used extent is reset.  With a step of 0 a size and a
\* radius are conversions of an infinity or a NaN.
computeDensityGridSize ==
  /\ pc = "created"
  /\ \E conv \in Conversions :
       LET s == frame.xy_stepSize
           zs == frame.z_stepSize
           hd == frame.horizontal_distance
           dsf == frame.down_sample_factor
           prev == frame.prev_points
           lo == PaddedMin(prev, s, zs)
           hi == PaddedMax(prev, s, zs)
           xs == IF s = 0 THEN GridSizeAtZeroStep(Extent(lo, hi, 1), kMaxXSize, conv)
                 ELSE GridSize(Extent(lo, hi, 1), s, kMaxXSize)
           ys == IF s = 0 THEN GridSizeAtZeroStep(Extent(lo, hi, 2), kMaxYSize, conv)
                 ELSE GridSize(Extent(lo, hi, 2), s, kMaxYSize)
           zz == IF zs = 0 THEN GridSizeAtZeroStep(Extent(lo, hi, 3), kMaxZSize, conv)
                 ELSE GridSize(Extent(lo, hi, 3), zs, kMaxZSize)
           kept == {c \in DOMAIN density_grid_ : ~InUsedExtent(c, xs, ys, zz)}
       IN  /\ xy_grid_step_' = s
           /\ z_grid_step_' = zs
           /\ discount_factor_' = DiscountFactor(Len(prev))
           /\ min_pt_' = lo
           /\ xSize_' = xs
           /\ ySize_' = ys
           /\ zSize_' = zz
           /\ density_grid_' = [c \in kept |-> density_grid_[c]]
           /\ indeterminate' = {c \in indeterminate : ~InUsedExtent(c, xs, ys, zz)}
           /\ spillover_sigma_xy_' = SigmaXY2(s, hd, dsf)
           /\ spillover_sigma_z_' = SigmaZ2(hd, dsf)
           /\ num_spillover_steps_xy_' =
                IF s = 0 THEN SpilloverStepsAtZeroStep(conv)
                ELSE SpilloverStepsXY(s, hd, dsf)
           /\ num_spillover_steps_z_' =
                IF zs = 0 THEN SpilloverStepsAtZeroStep(conv)
                ELSE SpilloverStepsZ(zs, hd, dsf)
           /\ min_density_' = kSmoothingFactor
  /\ unwritten' = {}
  /\ pc' = "sized"
  /\ UNCHANGED <<spillovers, next_point, frame, calls, xyz_transforms, next_transform,
                 scored_transforms, returned>>

\* Whether the constructor of the table (line 352) is given a negative size,
\* which converts to a size_t above max_size(): it throws std::length_error.
\* The sizes are the radii plus 1, int sums.
TableTooLong ==
  \/ IntSuccessor(num_spillover_steps_xy_) < 0
  \/ IntSuccessor(num_spillover_steps_z_) < 0

\* computeDensityGrid up to the first test of its loop (lines 334-381): the
\* table is built.  A table of negative size (a negative xy step gives a
\* negative radius, a step of 0 a radius that is no number) throws from the
\* vector's constructor.  With no previous point the loop makes no pass and
\* the grid is built as the reset left it.
computeDensityGrid ==
  /\ pc = "sized"
  /\ pc' = IF TableTooLong THEN "length_error"
           ELSE IF Len(frame.prev_points) = 0 THEN "built"
           ELSE "building"
  /\ next_point' = 1
  /\ spillovers' = IF TableTooLong THEN <<>> ELSE SpilloverTable
  /\ UNCHANGED <<frame, calls, xyz_transforms, next_transform, scored_transforms,
                 density_grid_, indeterminate, fields, returned>>

\* Whether the insertion of a point writes outside the allocated array
\* (a negative step can leave a used size of 1 and a window at index -1).
WritesOutsideArray(pt) ==
  \E c \in PointWindow(pt) : ~InUsedExtent(c, kMaxXSize, kMaxYSize, kMaxZSize)

\* The cells of grid that are cells of the array.
InsideArray(grid) ==
  [c \in {d \in DOMAIN grid : InUsedExtent(d, kMaxXSize, kMaxYSize, kMaxZSize)}
     |-> grid[c]]

\* One pass of the loop of lines 381-457; after the last point the grid is
\* built.  A read outside the table or a write outside the array is
\* undefined: the pass faults, or it goes on, with the cells the reads went
\* into indeterminate and with the array written where the write is inside
\* it.
insertPoint ==
  /\ pc = "building"
  /\ next_point <= Len(frame.prev_points)
  /\ LET pt == frame.prev_points[next_point]
     IN  \E fault \in IF ReadsOutsideTable(pt) \/ WritesOutsideArray(pt)
                        THEN BOOLEAN ELSE {FALSE} :
           IF fault
             THEN /\ pc' = "crashed"
                  /\ UNCHANGED <<density_grid_, indeterminate, next_point>>
             ELSE /\ density_grid_' =
                       InsideArray(InsertPoint(density_grid_, pt, spillovers))
                  /\ indeterminate' =
                       indeterminate
                         \cup {c \in IndeterminateCells(pt, spillovers) :
                                 InUsedExtent(c, kMaxXSize, kMaxYSize, kMaxZSize)}
                  /\ next_point' = next_point + 1
                  /\ pc' = IF next_point = Len(frame.prev_points)
                             THEN "built" ELSE "building"
  /\ UNCHANGED <<spillovers, frame, calls, xyz_transforms, next_transform,
                 scored_transforms, fields, returned>>

\* scored_transforms->clear() and reserve() (lines 213-214).
clear ==
  /\ pc = "built"
  /\ scored_transforms' = <<>>
  /\ next_transform' = 1
  /\ pc' = "scoring"
  /\ UNCHANGED <<spillovers, next_point, frame, calls, xyz_transforms, density_grid_,
                 indeterminate, fields, returned>>

\* One pass of the loop of lines 215-228.
addScoredTransform ==
  /\ pc = "scoring"
  /\ next_transform <= Len(xyz_transforms)
  /\ LET transform == xyz_transforms[next_transform]
         log_prob == getLogProbability(frame.current_points, frame.motion_model,
                                       transform.x, transform.y, transform.z)
     IN  scored_transforms' =
           Append(scored_transforms,
                  ScoredTransformXYZ(transform.x, transform.y, transform.z,
                                     log_prob, transform.volume))
  /\ next_transform' = next_transform + 1
  /\ UNCHANGED <<spillovers, next_point, pc, frame, calls, xyz_transforms, density_grid_,
                 indeterminate, fields, returned>>

\* The loop ends, scoreXYZTransforms and track return.
trackReturn ==
  /\ pc = "scoring"
  /\ next_transform > Len(xyz_transforms)
  /\ pc' = "idle"
  /\ returned' =
       returned
         \cup {<<frame, scored_transforms,
                 {i \in 1..Len(scored_transforms) :
                    LooksUpIndeterminate(frame.current_points, scored_transforms[i].x,
                                         scored_transforms[i].y, scored_transforms[i].z)}>>}
  /\ UNCHANGED <<spillovers, next_point, frame, calls, xyz_transforms, next_transform,
                 scored_transforms, density_grid_, indeterminate, fields>>


(***************************************************************************)
(* The calls explored.                                                     *)
(***************************************************************************)
MaxCalls == 2

Range(first, second) == <<first * (Tick \div 4), second * (Tick \div 4)>>

\* Previous scans: one point; two points in general position; two points
\* 1000 and 998 xy steps apart (x is clamped to kMaxXSize); two points 600 m
\* apart in z (z is clamped to kMaxZSize).
Scans ==
  {<<Point(0, 0, 0)>>,
   <<Point(0, 0, 0), Point(2, 1, 1)>>,
   <<Point(0, 0, 0), Point(1000, 0, 0)>>,
   <<Point(0, 0, 0), Point(998, 0, 0)>>,
   <<Point(0, 0, 0), Point(0, 0, 600)>>}

\* A current scan that is not the previous one, for the scans clamped in x.
Probe == <<Point(996, 0, 0), Point(0, 0, 0)>>

ProbedScans ==
  {<<Point(0, 0, 0), Point(1000, 0, 0)>>, <<Point(0, 0, 0), Point(998, 0, 0)>>}

Frames ==
  {Frame(Tick, zs, Range(-4, 4), Range(-4, 4), Range(0, 0),
         prev, prev, "isotropic", 0, 1) :
     zs \in {Tick, Tick \div 64}, prev \in Scans}
  \cup
  {Frame(Tick, zs, Range(-4, 4), Range(-4, 4), Range(0, 0),
         Probe, prev, "isotropic", 0, 1) :
     zs \in {Tick, Tick \div 64}, prev \in ProbedScans}

trackFrames == calls < MaxCalls /\ \E f \in Frames : track(f)

Next ==
  \/ trackFrames
  \/ computeDensityGridSize
  \/ computeDensityGrid
  \/ insertPoint
  \/ clear
  \/ addScoredTransform
  \/ trackReturn

Spec == Init /\ [][Next]_vars


(***************************************************************************)
(* One call on a new tracker, over a wide choice of steps and ranges,      *)
(* steps <= 0 and empty ranges included.                                   *)
(***************************************************************************)
CandidateFrames ==
  {Frame(s, zs, xr, yr, zr, <<Point(0, 0, 0)>>, <<Point(0, 0, 0)>>, "uniform", hd, 1) :
     s \in {-Tick, 0, Tick \div 2, Tick},
     zs \in {-Tick, 0, Tick},
     xr \in {Range(-4, 4), Range(0, 0), Range(4, -4), Range(0, 3)},
     yr \in {Range(-4, 4), Range(4, -4), Range(0, 1)},
     zr \in {Range(0, 0), Range(-4, 4), Range(4, -4)},
     hd \in {0, 20 * Tick}}

trackCandidateFrames == calls = 0 /\ \E f \in CandidateFrames : track(f)

NextCandidates ==
  \/ trackCandidateFrames
  \/ computeDensityGridSize
  \/ computeDensityGrid
  \/ insertPoint
  \/ clear
  \/ addScoredTransform
  \/ trackReturn

SpecCandidates == Init /\ [][NextCandidates]_vars

(***************************************************************************)
(* One call on a new tracker with the current scan equal to the previous   *)
(* one, on scans that fit the grid.                                        *)
(***************************************************************************)
IdentityFrames ==
  {Frame(s, zs, Range(-4, 4), Range(-4, 4), Range(0, 0), scan, scan, mm, hd, 1) :
     s \in {Tick \div 2, Tick},
     zs \in {Tick \div 64, Tick},
     scan \in {<<Point(0, 0, 0)>>,
               <<Point(0, 0, 0), Point(2, 1, 1)>>,
               <<Point(1, -3, 2), Point(0, 0, 0), Point(-2, 5, 1), Point(0, 0, 0)>>},
     mm \in {"uniform", "isotropic"},
     hd \in {0, 20 * Tick}}

trackIdentityFrames == calls = 0 /\ \E f \in IdentityFrames : track(f)

NextIdentity ==
  \/ trackIdentityFrames
  \/ computeDensityGridSize
  \/ computeDensityGrid
  \/ insertPoint
  \/ clear
  \/ addScoredTransform
  \/ trackReturn

SpecIdentity == Init /\ [][NextIdentity]_vars

(***************************************************************************)
(* One call on a new tracker with previous scans of 1..Spread points and   *)
(* of kMaxDiscountPoints and twice kMaxDiscountPoints points, give or take *)
(* Spread.                                                                 *)
(***************************************************************************)
Spread == 2

ScanOfSize(n) == [i \in 1..n |-> Point(i % 2, 0, 0)]

DiscountSizes ==
  (1..Spread)
    \cup ((kMaxDiscountPoints - Spread)..(kMaxDiscountPoints + Spread))
    \cup ((2 * kMaxDiscountPoints - Spread)..(2 * kMaxDiscountPoints + Spread))

DiscountFrames ==
  {Frame(Tick, Tick, Range(-4, 4), Range(0, 0), Range(0, 0),
         <<Point(0, 0, 0), Point(1, 0, 0), Point(3, 0, 0)>>, ScanOfSize(n), mm, 0, 1) :
     n \in DiscountSizes, mm \in {"uniform", "isotropic"}}

trackDiscountFrames == calls = 0 /\ \E f \in DiscountFrames : track(f)

NextDiscount ==
  \/ trackDiscountFrames
  \/ computeDensityGridSize
  \/ computeDensityGrid
  \/ insertPoint
  \/ clear
  \/ addScoredTransform
  \/ trackReturn

SpecDiscount == Init /\ [][NextDiscount]_vars

(***************************************************************************)
(* One call on a new tracker with a z spillover radius of 1: z steps of    *)
(* 1 m and 0.5 m against a z noise of centimetres.  The scans fit the grid *)
(* in x and y; two of them exceed kMaxZSize steps in z.                    *)
(***************************************************************************)
UnitRadiusScans ==
  {<<Point(0, 0, 0)>>,
   <<Point(0, 0, 0), Point(2, 1, 1)>>,
   <<Point(0, 0, 0), Point(1, 0, 1), Point(0, 1, 3)>>,
   <<Point(0, 0, 0), <<0, 0, 663 * (Tick \div 2)>>>>,
   <<Point(0, 0, 0), Point(0, 0, 600)>>}

UnitRadiusFrames ==
  {Frame(s, zs, Range(-4, 4), Range(-4, 4), Range(0, 0), scan, scan, "uniform", hd, 1) :
     s \in {Tick \div 2, Tick},
     zs \in {Tick \div 2, Tick},
     scan \in UnitRadiusScans,
     hd \in {0, 20 * Tick}}

trackUnitRadiusFrames == calls = 0 /\ \E f \in UnitRadiusFrames : track(f)

NextUnitRadius ==
  \/ trackUnitRadiusFrames
  \/ computeDensityGridSize
  \/ computeDensityGrid
  \/ insertPoint
  \/ clear
  \/ addScoredTransform
  \/ trackReturn

SpecUnitRadius == Init /\ [][NextUnitRadius]_vars


(***************************************************************************)
(* Calls on one tracker whose grids differ in extent.  The second point of *)
(* HistoryScan maps to z index 504 of a grid clamped to kMaxZSize with a z *)
(* radius of 3: its window ends 6 cells below it, and the one point of     *)
(* HistoryProbe is looked up in a cell of that window.                     *)
(***************************************************************************)
HistoryScan == <<Point(0, 0, 0), <<0, 0, 5 * Tick + 15>>>>

HistoryProbe == <<<<0, 0, 5 * Tick + 9>>>>

HistoryFrames ==
  {Frame(Tick, 1, Range(-4, 4), Range(-4, 4), Range(0, 0),
         HistoryProbe, HistoryScan, "uniform", 0, 1),
   Frame(Tick, Tick, Range(-4, 4), Range(-4, 4), Range(0, 0),
         <<Point(0, 0, 0)>>, <<Point(0, 0, 0), Point(1, 1, 1)>>, "uniform", 0, 1),
   Frame(Tick \div 2, 1, Range(-4, 4), Range(-4, 4), Range(0, 0),
         <<Point(0, 0, 0)>>, <<Point(0, 0, 0), Point(1, 1, 1), Point(2, 2, 2)>>,
         "uniform", 0, 1)}

trackHistoryFrames == calls < MaxCalls /\ \E f \in HistoryFrames : track(f)

NextHistory ==
  \/ trackHistoryFrames
  \/ computeDensityGridSize
  \/ computeDensityGrid
  \/ insertPoint
  \/ clear
  \/ addScoredTransform
  \/ trackReturn

SpecHistory == Init /\ [][NextHistory]_vars

(***************************************************************************)
(* Calls on one tracker and one sink, calls that end in an exception       *)
(* included: a reversed zRange (reserve of a negative count, line 139) and *)
(* a z step of 0 (a table of negative size, line 352).                     *)
(***************************************************************************)
SinkFrames ==
  {Frame(Tick, zs, Range(-4, 4), Range(-4, 4), zr,
         <<Point(0, 0, 0)>>, prev, "uniform", 0, 1) :
     zs \in {Tick, 0},
     zr \in {Range(0, 0), Range(4, -4)},
     prev \in {<<Point(0, 0, 0)>>, <<Point(0, 0, 0), Point(2, 1, 1)>>}}

trackSinkFrames == calls < MaxCalls /\ \E f \in SinkFrames : track(f)

NextSink ==
  \/ trackSinkFrames
  \/ computeDensityGridSize
  \/ computeDensityGrid
  \/ insertPoint
  \/ clear
  \/ addScoredTransform
  \/ trackReturn

SpecSink == Init /\ [][NextSink]_vars


(***************************************************************************)
(* Properties.                                                             *)
(***************************************************************************)
\* The call in progress has sized the grid: the fields are those of `frame`.
Sized == pc \in {"sized", "building", "built", "scoring"}

PositiveSteps == frame.xy_stepSize > 0 /\ frame.z_stepSize > 0

PrevPoints == {frame.prev_points[n] : n \in 1..Len(frame.prev_points)}

CurrentPoints == {frame.current_points[n] : n \in 1..Len(frame.current_points)}

Candidates == {xyz_transforms[i] : i \in 1..Len(xyz_transforms)}

\* ceil(padded extent / step) on one axis, before the clamp.
Quotient(axis) ==
  LET step == IF axis = 3 THEN frame.z_stepSize ELSE frame.xy_stepSize
      lo == PaddedMin(frame.prev_points, frame.xy_stepSize, frame.z_stepSize)
      hi == PaddedMax(frame.prev_points, frame.xy_stepSize, frame.z_stepSize)
  IN  CeilQuotient(Extent(lo, hi, axis), step)

Clamped(q, most) == IF q > most THEN most ELSE IF q < 1 THEN 1 ELSE q

\* C1: for a non-empty previous scan and positive steps the used sizes are
\* the rounded-up quotients clamped into [1, 1000], [1, 1000] and [1, 500],
\* the reset leaves no written cell inside the used extent, and every cell
\* written by computeDensityGrid or read by getLogProbability lies inside
\* the used extent, also when points map beyond a clamped grid.
C1_GridAccessInsideUsedExtent ==
  (Sized /\ PositiveSteps) =>
    /\ xSize_ = Clamped(Quotient(1), 1000)
    /\ ySize_ = Clamped(Quotient(2), 1000)
    /\ zSize_ = Clamped(Quotient(3), 500)
    /\ 1 <= xSize_ /\ xSize_ <= 1000
    /\ 1 <= ySize_ /\ ySize_ <= 1000
    /\ 1 <= zSize_ /\ zSize_ <= 500
    /\ pc = "sized" =>
         \A c \in DOMAIN density_grid_ : ~InUsedExtent(c, xSize_, ySize_, zSize_)
    /\ \A pt \in PrevPoints : \A c \in PointWindow(pt) :
         InUsedExtent(c, xSize_, ySize_, zSize_)
    /\ \A c \in DOMAIN density_grid_ : InUsedExtent(c, kMaxXSize, kMaxYSize, kMaxZSize)
    /\ \A t \in Candidates : \A pt \in CurrentPoints :
         InUsedExtent(ShiftedCell(pt, t.x, t.y, t.z), xSize_, ySize_, zSize_)

\* A grid clamped to kMaxXSize is built from a scan with a point whose x
\* index lies beyond the grid, and a candidate is being scored on it.
C1_Witness ==
  /\ pc = "scoring"
  /\ Quotient(1) > kMaxXSize
  /\ xSize_ = kMaxXSize
  /\ \E pt \in PrevPoints : PointIndex(pt)[1] > xSize_ - 1 /\ PointWindow(pt) # {}
  /\ Len(scored_transforms) > 0


\* C2: the scored transforms a call returns depend on its arguments alone:
\* two returned calls with the same arguments, whatever calls came before
\* them, returned the same list, and every entry of a returned list is
\* decided by the arguments: none sums a grid cell that took a value read
\* outside the spillover table (the third component of a returned call is
\* the set of the entries that do).
C2_ResultDependsOnArgumentsOnly ==
  \A a, b \in returned : /\ a[1] = b[1] => a[2] = b[2]
                          /\ a[3] = {}

\* The part of C2 the out-of-table read leaves standing: two returned calls
\* with the same arguments returned lists that agree in every entry the
\* arguments decide (an entry that sums an indeterminate cell is kept at
\* its least value in both).
ReturnedListsAgree == \A a, b \in returned : a[1] = b[1] => a[2] = b[2]

\* The cells of the window of a point, clamped as the point's own cell is.
OwnCell(pt) ==
  LET ix == PointIndex(pt)
  IN  <<Min(Max(1, ix[1]), xSize_ - 2), Min(Max(1, ix[2]), ySize_ - 2),
        Min(Max(1, ix[3]), zSize_ - 2)>>

Border(c) ==
  \/ c[1] = 0 \/ c[1] = xSize_ - 1
  \/ c[2] = 0 \/ c[2] = ySize_ - 1
  \/ c[3] = 0 \/ c[3] = zSize_ - 1

\* A change of the sink is the clear after the build, or the append of the
\* entry of the next candidate while scoring.
SinkStep ==
  scored_transforms' # scored_transforms =>
    \/ pc = "built" /\ scored_transforms' = <<>>
    \/ /\ pc = "scoring"
       /\ Len(scored_transforms') = Len(scored_transforms) + 1
       /\ SubSeq(scored_transforms', 1, Len(scored_transforms)) = scored_transforms

\* Entry i of the sink is candidate i with its x, y, z and volume.
SinkMatches(n) ==
  /\ Len(scored_transforms) = n
  /\ \A i \in 1..n :
       /\ scored_transforms[i].x = xyz_transforms[i].x
       /\ scored_transforms[i].y = xyz_transforms[i].y
       /\ scored_transforms[i].z = xyz_transforms[i].z
       /\ scored_transforms[i].volume = xyz_transforms[i].volume

\* The candidates are in generation order: x ascending, then y ascending.
GenerationOrder ==
  \A i, j \in 1..Len(xyz_transforms) :
    i < j => \/ xyz_transforms[i].x < xyz_transforms[j].x
             \/ /\ xyz_transforms[i].x = xyz_transforms[j].x
                /\ xyz_transforms[i].y < xyz_transforms[j].y

\* A call has ended, by its return or by an exception.
CallEnded == calls > 0 /\ pc \in {"idle", "length_error", "bad_alloc"}

\* C4: in a call the sink changes only after the grid is built, first by
\* the clear and then by one entry per candidate in generation order, each
\* with its candidate's x, y, z and volume; after the call, however it
\* ended, the sink holds these entries and nothing of an earlier call.
C4_SinkClearedThenFilledInOrder ==
  /\ [](GenerationOrder)
  /\ [](pc = "scoring" => SinkMatches(next_transform - 1))
  /\ [](CallEnded => SinkMatches(Len(xyz_transforms)))
  /\ [][SinkStep]_vars

\* The part of C4 about calls that return: the sink changes only after the
\* grid is built, first by the clear and then by one entry per candidate in
\* generation order, and a call that returns leaves exactly these entries.
SinkOfReturnedCall ==
  /\ [](GenerationOrder)
  /\ [](pc = "scoring" => SinkMatches(next_transform - 1))
  /\ []((pc = "idle" /\ calls > 0) => SinkMatches(Len(xyz_transforms)))
  /\ [][SinkStep]_vars

\* C5: once the grid is rebuilt, every used cell on the border holds the
\* background value, so does every used cell in no point's window, and
\* every used cell holds at least the background value.
C5_BorderAndUntouchedCellsAreBackground ==
  (pc \in {"built", "scoring"} /\ PositiveSteps) =>
    \A c \in DOMAIN density_grid_ :
      InUsedExtent(c, xSize_, ySize_, zSize_) =>
        /\ Border(c) => density_grid_[c] = Background
        /\ (\A pt \in PrevPoints : c \notin PointWindow(pt)) =>
             density_grid_[c] = Background
        /\ density_grid_[c] >= Background

\* A grid rebuilt by a second call: a cell next to the border holds more
\* than the background, and a cell written by the first call lies outside
\* the extent now used.
C5_Witness ==
  /\ pc = "built"
  /\ calls = 2
  /\ \E c \in DOMAIN density_grid_ :
       /\ InUsedExtent(c, xSize_, ySize_, zSize_)
       /\ c[1] = 1
       /\ density_grid_[c] > Background
  /\ \E c \in DOMAIN density_grid_ : ~InUsedExtent(c, xSize_, ySize_, zSize_)

\* C6: once the grid is built, the cell at a point's index clamped to the
\* interior holds at least the background value and at least every table
\* value at a nonzero offset.
C6_OwnCellDominatesTable ==
  (pc \in {"built", "scoring"} /\ PositiveSteps) =>
    \A pt \in PrevPoints :
      /\ GridAt(density_grid_, OwnCell(pt)) >= Background
      /\ \A o \in DOMAIN SpilloverTable :
           o # <<0, 0, 0>> => GridAt(density_grid_, OwnCell(pt)) >= SpilloverTable[o]

\* C10: for every point and every cell of its window the offsets read from
\* the spillover table are inside the table.
C10_TableOffsetsInsideTable ==
  (Sized /\ PositiveSteps) =>
    \A pt \in PrevPoints : \A c \in PointWindow(pt) :
      \A o \in WindowOffsets(PointIndex(pt), c) :
        /\ 0 <= o[1] /\ o[1] <= num_spillover_steps_xy_
        /\ 0 <= o[2] /\ o[2] <= num_spillover_steps_xy_
        /\ 0 <= o[3] /\ o[3] <= num_spillover_steps_z_


\* The number of lattice values first, first + step, ... up to second.
LatticeCount(range, step) ==
  IF range[2] < range[1] THEN 0 ELSE (range[2] - range[1]) \div step + 1

\* C3: for an xy step s > 0 createCandidateXYZTransforms produces its list,
\* with exactly one candidate for each lattice pair (x0 + a s, y0 + b s)
\* inside the ranges and no other: (floor((x1-x0)/s)+1) * (floor((y1-y0)/s)+1)
\* candidates, none when a range is empty; each has z = 0 and volume
\* s * s * zs (in cubic ticks) whatever zRange is; steps of 1 and ranges
\* [-1, 1] give 9 candidates of volume 1.
C3_OneCandidatePerLatticePair ==
  (calls > 0 /\ frame.xy_stepSize > 0) =>
    LET s == frame.xy_stepSize
        nx == LatticeCount(frame.xRange, s)
        ny == LatticeCount(frame.yRange, s)
    IN  /\ pc # "length_error"
        /\ Len(xyz_transforms) = nx * ny
        /\ \A a \in 0..(nx - 1) : \A b \in 0..(ny - 1) :
             Cardinality({i \in 1..Len(xyz_transforms) :
                            /\ xyz_transforms[i].x = frame.xRange[1] + a * s
                            /\ xyz_transforms[i].y = frame.yRange[1] + b * s}) = 1
        /\ \A t \in Candidates :
             /\ t.z = 0
             /\ t.volume = s * s * frame.z_stepSize
        /\ (/\ s = Tick /\ frame.z_stepSize = Tick
            /\ frame.xRange = <<-Tick, Tick>> /\ frame.yRange = <<-Tick, Tick>>
            /\ frame.zRange = <<0, 0>>) =>
             /\ Len(xyz_transforms) = 9
             /\ \A t \in Candidates : t.volume = Tick * Tick * Tick

\* The current scan is the previous scan and no axis of the grid is clamped.
IdentityCase ==
  /\ frame.current_points = frame.prev_points
  /\ Quotient(1) <= kMaxXSize
  /\ Quotient(2) <= kMaxYSize
  /\ Quotient(3) <= kMaxZSize

Peak == Ln(FS + kSmoothingFactor)

\* C7: when the current scan is the previous scan and the grid is not
\* clamped, under candidate (0,0,0) every current point is looked up in the
\* cell it was inserted into, the summed log density of (0,0,0) is the
\* number of points times the peak of the table and is at least that of
\* every candidate; for the one-point scan at the origin with steps of 1,
\* (0,0,0) scores strictly above (1,1,0).
C7_IdentityCandidateScoresBest ==
  /\ (pc = "scoring" /\ IdentityCase) =>
       LET cur == frame.current_points
           best == TotalLogDensity(cur, Len(cur), 0, 0, 0)
       IN  /\ \A pt \in CurrentPoints :
                /\ ShiftedCell(pt, 0, 0, 0) = PointIndex(pt)
                /\ GridAt(density_grid_, ShiftedCell(pt, 0, 0, 0)) = Peak
           /\ best = Len(cur) * Peak
           /\ \A t \in Candidates : TotalLogDensity(cur, Len(cur), t.x, t.y, t.z) <= best
  /\ (/\ pc = "idle" /\ calls > 0
      /\ frame.prev_points = <<<<0, 0, 0>>>> /\ frame.current_points = <<<<0, 0, 0>>>>
      /\ frame.xy_stepSize = Tick /\ frame.z_stepSize = Tick) =>
       \A i, j \in 1..Len(scored_transforms) :
         (/\ scored_transforms[i].x = 0 /\ scored_transforms[i].y = 0
          /\ scored_transforms[j].x = Tick /\ scored_transforms[j].y = Tick) =>
           scored_transforms[i].log_prob > scored_transforms[j].log_prob

\* The call on the one-point scan at the origin with steps of 1 and a
\* motion model that scores every translation alike has returned the scores
\* of (0,0,0) and of (1,1,0).
C7_Witness ==
  /\ pc = "idle" /\ calls > 0
  /\ frame.prev_points = <<<<0, 0, 0>>>> /\ frame.current_points = <<<<0, 0, 0>>>>
  /\ frame.xy_stepSize = Tick /\ frame.z_stepSize = Tick
  /\ frame.motion_model = "uniform"
  /\ \E i, j \in 1..Len(scored_transforms) :
       /\ scored_transforms[i].x = 0 /\ scored_transforms[i].y = 0
       /\ scored_transforms[j].x = Tick /\ scored_transforms[j].y = Tick

\* C8: for a previous scan of n points the discount is 1 when n < 150 and
\* 150 / n from 150 on: 1 at 150, 1/2 at 300, never above 1, positive, and
\* not above the discount of any smaller scan; every score is
\* log(motion probability) + discount * summed log density.
C8_DiscountFactor ==
  Sized =>
    LET n == Len(frame.prev_points)
        d == discount_factor_
        cur == frame.current_points
    IN  /\ d.den > 0 /\ d.num > 0 /\ d.num <= d.den
        /\ n < 150 => d.num = d.den
        /\ n >= 150 => d.num * n = 150 * d.den
        /\ n = 150 => d.num = d.den
        /\ n = 300 => 2 * d.num = d.den
        /\ \A m \in 1..n :
             DiscountFactor(m).num * d.den >= d.num * DiscountFactor(m).den
        /\ pc = "scoring" =>
             \A i \in 1..Len(scored_transforms) :
               LET e == scored_transforms[i]
                   total == TotalLogDensity(cur, Len(cur), e.x, e.y, e.z)
               IN  e.log_prob =
                     Ln(MotionModel_computeScore(frame.motion_model, e.x, e.y, e.z))
                       + (IF n < 150 THEN total ELSE RoundDiv(150 * total, n))

\* A candidate was scored against a grid built from 300 points, and its
\* summed log density is not 0.
C8_Witness ==
  /\ pc = "scoring"
  /\ Len(frame.prev_points) = 300
  /\ \E i \in 1..Len(scored_transforms) :
       LET e == scored_transforms[i]
       IN  TotalLogDensity(frame.current_points, Len(frame.current_points),
                           e.x, e.y, e.z) # 0

\* The 12 members hold what they held at construction.
MembersUnwritten == unwritten = Members

\* C9: a call with an xy step <= 0 or a z step <= 0 ends in an error before
\* a candidate is generated, before the grid is sized or written and before
\* the sink is touched; it neither divides by the zero step, nor loops
\* without end, nor returns scored transforms.
C9_NonPositiveStepFailsFast ==
  (calls > 0 /\ (frame.xy_stepSize <= 0 \/ frame.z_stepSize <= 0)) =>
    /\ pc = "length_error"
    /\ xyz_transforms = <<>>
    /\ MembersUnwritten
    /\ DOMAIN density_grid_ = {}
    /\ scored_transforms \in CallerSinks
    /\ returned = {}


\* C11: when the z spillover radius is 1, the grid the unit-radius branch
\* has built equals, cell for cell, the grid the triple loop builds from the
\* same reset grid with radius 1, and the triple loop reads no table entry
\* that does not exist; also when zSize_ is clamped and a point's z index
\* falls outside [1, zSize_ - 2].
C11_UnitRadiusBranchEqualsGeneralLoop ==
  (pc = "built" /\ PositiveSteps /\ num_spillover_steps_z_ = 1) =>
    /\ \A pt \in PrevPoints : ~GeneralReadsOutsideTable(pt)
    /\ LET general == GeneralGrid([c \in {} |-> Background], frame.prev_points,
                                  Len(frame.prev_points), SpilloverTable)
       IN  \A c \in DOMAIN density_grid_ \cup DOMAIN general :
             GridAt(density_grid_, c) = GridAt(general, c)

====
